---- MODULE Spec2Model ----
(***************************************************************************)
(* Model of the JPEG quality estimator of src/app.py                       *)
(* (get_jpeg_quality_from_qtable, classify_quality, main_cli) and of the   *)
(* second copy of classify_quality in src/jpeg-quality-estimator/app.py.   *)
(*                                                                         *)
(* Numbers.  The code computes in IEEE doubles (np.float64).  The model    *)
(* computes the same expressions in exact rationals [num, den], den > 0.   *)
(* For every table length 1..199 and every entry sum up to 300 per entry   *)
(* the double result of lines 85-88 and 104-116, after int(), equals the   *)
(* exact result after truncation: sum/64 is exact in binary, 1.5 is exact, *)
(* and with 0.6 and 0.1 the products that are whole numbers in exact       *)
(* arithmetic round to that whole number, the others stay further from a   *)
(* whole number than the rounding error.                                   *)
(***************************************************************************)
EXTENDS Integers, Sequences, FiniteSets, TLC

VARIABLES arg, pc, ret, shown

vars == <<arg, pc, ret, shown>>

(***************************************************************************)
(* Bounds of the model.                                                    *)
(***************************************************************************)
\* Largest entry of a quantization table (8-bit baseline tables: 0..255).
MaxEntry == 255
\* Entry count of the short size-mismatched table.
ShortLen == 32
\* Scores handed to classify_quality range over -ScoreMargin..100+ScoreMargin.
ScoreMargin == 10

(***************************************************************************)
(* src/app.py:13-22                                                        *)
(***************************************************************************)
STANDARD_LUMINANCE_TABLE ==
    << 16,  11,  10,  16,  24,  40,  51,  61,
       12,  12,  14,  19,  26,  58,  60,  55,
       14,  13,  16,  24,  40,  57,  69,  56,
       14,  17,  22,  29,  51,  87,  80,  62,
       18,  22,  37,  56,  68, 109, 103,  77,
       24,  35,  55,  64,  81, 104, 113,  92,
       49,  64,  78,  87, 103, 121, 120, 101,
       72,  92,  95,  98, 112, 100, 103,  99 >>

(***************************************************************************)
(* Python and NumPy values.                                                *)
(***************************************************************************)
\* The Python object None, and a Python list of integers.
PyNone == [kind |-> "None", data |-> <<>>]
PyList(s) == [kind |-> "list", data |-> s]

\* Exact rationals standing for the doubles of the code.
Rat(n, d) == [num |-> n, den |-> d]
RatInt(n) == Rat(n, 1)
RatSub(a, b) == Rat(a.num * b.den - b.num * a.den, a.den * b.den)
RatMul(a, b) == Rat(a.num * b.num, a.den * b.den)
RatDiv(a, b) ==
    IF b.num > 0 THEN Rat(a.num * b.den, a.den * b.num)
                 ELSE Rat(-(a.num * b.den), a.den * (-b.num))
RatLE(a, b) == a.num * b.den <= b.num * a.den
RatLT(a, b) == a.num * b.den < b.num * a.den

\* Python's min(a, b) and max(a, b): the first argument wins a tie.
py_min(a, b) == IF RatLT(b, a) THEN b ELSE a
py_max(a, b) == IF RatLT(a, b) THEN b ELSE a

\* int(x) of a finite float: the fractional part is dropped (toward zero).
py_int(x) ==
    IF x.num >= 0 THEN x.num \div x.den ELSE -((-x.num) \div x.den)

\* dict.get(key): the value of the first item with that key, else None.
RECURSIVE dict_get(_, _)
dict_get(d, key) ==
    IF d = <<>> THEN PyNone
    ELSE IF Head(d).key = key THEN PyList(Head(d).val)
    ELSE dict_get(Tail(d), key)

\* list(d.keys()), in insertion order.
dict_keys(d) == [i \in 1..Len(d) |-> d[i].key]

\* np.array(x): an ndarray, also for None (a 0-d object array); .flatten()
\* of the 0-d object array has one element, None.
np_array(x) ==
    IF x.kind = "None"
    THEN [kind |-> "ndarray", dtype |-> "object", size |-> 1, data |-> <<>>]
    ELSE [kind |-> "ndarray", dtype |-> "int", size |-> Len(x.data),
          data |-> x.data]

\* `x is None`
is_None(x) == x.kind = "None"

RECURSIVE SumSeq(_)
SumSeq(s) == IF s = <<>> THEN 0 ELSE Head(s) + SumSeq(Tail(s))

\* a[mask]: the entries of a at the positions where mask holds.
RECURSIVE MaskSelect(_, _, _)
MaskSelect(s, mask, i) ==
    IF i > Len(s) THEN <<>>
    ELSE IF mask[i] THEN <<s[i]>> \o MaskSelect(s, mask, i + 1)
    ELSE MaskSelect(s, mask, i + 1)

\* np.mean of a flat array: TypeError on an object array holding None,
\* nan on an empty array, else sum / count.
np_mean(a) ==
    IF a.dtype = "object" THEN [tag |-> "raise", exc |-> "TypeError", val |-> Rat(0, 1)]
    ELSE IF a.size = 0 THEN [tag |-> "nan", exc |-> "none", val |-> Rat(0, 1)]
    ELSE [tag |-> "ok", exc |-> "none", val |-> Rat(SumSeq(a.data), a.size)]

(***************************************************************************)
(* Exceptions.                                                             *)
(***************************************************************************)
ExceptionBase(e) ==
    CASE e = "UnidentifiedImageError" -> "OSError"
      [] e = "FileNotFoundError" -> "OSError"
      [] e = "PermissionError" -> "OSError"
      [] e = "OSError" -> "Exception"
      [] e = "ValueError" -> "Exception"
      [] e = "TypeError" -> "Exception"
      [] e = "AttributeError" -> "Exception"
      [] OTHER -> "BaseException"

RECURSIVE IsInstance(_, _)
IsInstance(e, cls) ==
    IF e = cls THEN TRUE
    ELSE IF e = "BaseException" \/ e = "none" THEN FALSE
    ELSE IsInstance(ExceptionBase(e), cls)

\* What a call produces: a returned value or an exception leaving the call.
\* branch names the return statement or raise site, handler the except
\* clause that ran ("none" when none did).
Return(v, b) ==
    [tag |-> "return", value |-> v, exc |-> "none", branch |-> b, handler |-> "none"]
Raise(e, b) ==
    [tag |-> "raise", value |-> 0, exc |-> e, branch |-> b, handler |-> "none"]
Handled(v, r, h) ==
    [tag |-> "return", value |-> v, exc |-> r.exc, branch |-> r.branch, handler |-> h]

(***************************************************************************)
(* get_jpeg_quality_from_qtable, src/app.py:24-127                         *)
(***************************************************************************)
\* Image.open (lines 27-32): the decoding library opens the path or the
\* bytes; arg.open is what it does with this input ("ok" or the exception
\* it raises).  Any other argument type raises ValueError.
Image_open(a) ==
    IF a.type \notin {"str", "bytes"} THEN Raise("ValueError", "type")
    ELSE IF a.open # "ok" THEN Raise(a.open, "open")
    ELSE Return(0, "opened")

\* Variant of format_fallback: PNG is not told apart from the other formats.
format_fallback_without_png(format) == 50

\* Lines 40-42: the fixed quality of a non-JPEG image.
format_fallback(format) == IF format = "PNG" THEN 98 ELSE 50

\* Line 71: STANDARD_LUMINANCE_TABLE != 0
non_zero_std_indices ==
    [i \in 1..Len(STANDARD_LUMINANCE_TABLE) |-> STANDARD_LUMINANCE_TABLE[i] # 0]

\* np.any(mask)
np_any(mask) == \E i \in DOMAIN mask : mask[i]

\* Variant of size_mismatch_quality: min(100, ...) is left out.
size_mismatch_quality_without_upper_bound(flat) ==
    LET avg_q_value == np_mean(flat)
    IN  IF avg_q_value.tag = "raise" THEN Raise(avg_q_value.exc, "mismatch")
        ELSE IF avg_q_value.tag = "nan" THEN Raise("ValueError", "mismatch")
        ELSE LET raw == RatSub(RatInt(110), RatDiv(avg_q_value.val, Rat(3, 2)))
                 q == py_int(raw)
             IN  Return(IF 1 < q THEN q ELSE 1, "mismatch")

\* Lines 83-89: the table's size differs from the standard table's.
size_mismatch_quality(flat) ==
    LET avg_q_value == np_mean(flat)
    IN  IF avg_q_value.tag = "raise" THEN Raise(avg_q_value.exc, "mismatch")
        ELSE IF avg_q_value.tag = "nan" THEN Raise("ValueError", "mismatch")
        ELSE LET raw == RatSub(RatInt(110), RatDiv(avg_q_value.val, Rat(3, 2)))
                 q == py_int(raw)
                 inner == IF 100 < q THEN 100 ELSE q
             IN  Return(IF 1 < inner THEN inner ELSE 1, "mismatch")

\* Lines 110-114, one formula per segment.
segment1(avg) == RatSub(RatInt(95), RatSub(avg, RatInt(1)))
segment2(avg) == RatSub(RatInt(90), RatMul(RatSub(avg, RatInt(10)), Rat(3, 2)))
segment3(avg) == RatSub(RatInt(75), RatMul(RatSub(avg, RatInt(20)), Rat(1, 1)))
segment4(avg) == RatSub(RatInt(45), RatMul(RatSub(avg, RatInt(50)), Rat(6, 10)))
segment5(avg) == RatSub(RatInt(15), RatMul(RatSub(avg, RatInt(100)), Rat(1, 10)))

\* Variant of piecewise_quality: the segment bounds compare with < for <=.
piecewise_quality_strict_bounds(avg_q_val) ==
    IF RatLT(avg_q_val, RatInt(10)) THEN segment1(avg_q_val)
    ELSE IF RatLT(avg_q_val, RatInt(20)) THEN segment2(avg_q_val)
    ELSE IF RatLT(avg_q_val, RatInt(50)) THEN segment3(avg_q_val)
    ELSE IF RatLT(avg_q_val, RatInt(100)) THEN segment4(avg_q_val)
    ELSE segment5(avg_q_val)

\* Lines 110-114: the if / elif chain.
piecewise_quality(avg_q_val) ==
    IF RatLE(avg_q_val, RatInt(10)) THEN segment1(avg_q_val)
    ELSE IF RatLE(avg_q_val, RatInt(20)) THEN segment2(avg_q_val)
    ELSE IF RatLE(avg_q_val, RatInt(50)) THEN segment3(avg_q_val)
    ELSE IF RatLE(avg_q_val, RatInt(100)) THEN segment4(avg_q_val)
    ELSE segment5(avg_q_val)

\* Variant of clamp_to_int: max(1, ...) is left out.
clamp_without_lower_bound(quality) == py_int(py_min(RatInt(100), quality))

\* Line 116: int(max(1, min(100, quality)))
clamp_to_int(quality) == py_int(py_max(RatInt(1), py_min(RatInt(100), quality)))

\* Lines 91-117: the table has the standard table's size.
standard_quality(flat) ==
    LET luminance_q_table_flat_filtered ==
            [flat EXCEPT !.data = MaskSelect(flat.data, non_zero_std_indices, 1),
                         !.size = Len(MaskSelect(flat.data, non_zero_std_indices, 1))]
        avg_q_val == np_mean(luminance_q_table_flat_filtered)
    IN  IF avg_q_val.tag = "raise" THEN Raise(avg_q_val.exc, "standard")
        ELSE IF avg_q_val.tag = "nan" THEN Raise("ValueError", "standard")
        ELSE Return(clamp_to_int(piecewise_quality(avg_q_val.val)), "standard")

\* Lines 52-60: the luminance table, or the return that ends the search.
\* np.array(...) is never None, so lines 54-60 run only if is_None holds.
luminance_table(q_tables) ==
    LET luminance_q_table == np_array(dict_get(q_tables, 0))
    IN  IF is_None(luminance_q_table)
        THEN LET available_tables == dict_keys(q_tables)
             IN  IF available_tables = <<>>
                 THEN [tag |-> "return", table |-> luminance_q_table]
                 ELSE [tag |-> "table",
                       table |-> np_array(dict_get(q_tables, available_tables[1]))]
        ELSE [tag |-> "table", table |-> luminance_q_table]

\* Lines 44-117: from img.quantization to the returned quality.
quality_from_tables(quantization) ==
    IF ~quantization.present THEN Raise("AttributeError", "quantization")
    ELSE LET q_tables == quantization.items
         IN  IF q_tables = <<>> THEN Return(50, "no_tables")
             ELSE LET lum == luminance_table(q_tables)
                  IN  IF lum.tag = "return" THEN Return(40, "no_keys")
                      ELSE IF ~np_any(non_zero_std_indices) THEN Return(30, "std_zero")
                      ELSE IF lum.table.size # Len(STANDARD_LUMINANCE_TABLE)
                           THEN size_mismatch_quality(lum.table)
                           ELSE standard_quality(lum.table)

\* Lines 27-117: the body of the try statement.
try_body(a) ==
    LET img == Image_open(a)
    IN  IF img.tag = "raise" THEN img
        ELSE IF a.format # "JPEG" THEN Return(format_fallback(a.format), "not_jpeg")
        ELSE quality_from_tables(a.quantization)

\* Variant of except_clauses: the catch-all clause comes first.
except_clauses_catch_all_first(r) ==
    IF r.tag = "return" THEN r
    ELSE IF IsInstance(r.exc, "Exception") THEN Handled(30, r, "Exception")
    ELSE IF IsInstance(r.exc, "UnidentifiedImageError")
         THEN Handled(20, r, "UnidentifiedImageError")
    ELSE IF IsInstance(r.exc, "ValueError") THEN Handled(25, r, "ValueError")
    ELSE r

\* Lines 119-127: the except clauses, in their order.
except_clauses(r) ==
    IF r.tag = "return" THEN r
    ELSE IF IsInstance(r.exc, "UnidentifiedImageError")
         THEN Handled(20, r, "UnidentifiedImageError")
    ELSE IF IsInstance(r.exc, "ValueError") THEN Handled(25, r, "ValueError")
    ELSE IF IsInstance(r.exc, "Exception") THEN Handled(30, r, "Exception")
    ELSE r

get_jpeg_quality_from_qtable(image_path_or_bytes) ==
    except_clauses(try_body(image_path_or_bytes))

(***************************************************************************)
(* classify_quality, src/app.py:132-140 and                                *)
(* src/jpeg-quality-estimator/app.py:31-39                                 *)
(***************************************************************************)
\* Variant of classify_quality: the thresholds compare with > for >=.
classify_quality_strict(score) ==
    IF score > 90 THEN "High Quality"
    ELSE IF score > 80 THEN "Medium Quality"
    ELSE IF score > 70 THEN "Low Quality"
    ELSE "Very Low Quality"

classify_quality(score) ==
    IF score >= 90 THEN "High Quality"
    ELSE IF score >= 80 THEN "Medium Quality"
    ELSE IF score >= 70 THEN "Low Quality"
    ELSE "Very Low Quality"

classify_quality_estimator(score) ==
    IF score >= 90 THEN "High Quality"
    ELSE IF score >= 80 THEN "Medium Quality"
    ELSE IF score >= 70 THEN "Low Quality"
    ELSE "Very Low Quality"

(***************************************************************************)
(* main_cli, src/app.py:154-167: what it prints.                           *)
(***************************************************************************)
Printed(kind, score, category) ==
    [kind |-> kind, score |-> score, category |-> category]
NothingShown == Printed("nothing", 0, "none")

main_cli(image_path) ==
    LET r == get_jpeg_quality_from_qtable(image_path)
    IN  IF r.tag = "return"
        THEN Printed("quality", r.value, classify_quality(r.value))
        ELSE IF IsInstance(r.exc, "FileNotFoundError")
             THEN Printed("file_not_found", 0, "none")
        ELSE IF IsInstance(r.exc, "Exception")
             THEN Printed("error", 0, "none")
        ELSE Printed("uncaught", 0, "none")

(***************************************************************************)
(* Inputs.  What the decoding library makes of an argument: whether it     *)
(* opens, the format it identifies, and the image's quantization           *)
(* attribute, a dict from table id to table (absent on non-JPEG images).   *)
(***************************************************************************)
StdLen == Len(STANDARD_LUMINANCE_TABLE)

\* A table of n entries: the first k hold v + 1, the others v.  With
\* v in 0..MaxEntry and k in 0..n-1 the tables take every possible sum.
MkTable(n, v, k) == [i \in 1..n |-> IF i <= k THEN v + 1 ELSE v]

TablesOfLen(n) ==
    {MkTable(n, v, k) : v \in 0..(MaxEntry - 1), k \in 0..(n - 1)}
        \cup {MkTable(n, MaxEntry, 0)}

StandardTables == TablesOfLen(StdLen)
ShortTables == TablesOfLen(ShortLen)
LongTables == {MkTable(StdLen + 1, v, 0) : v \in 0..MaxEntry}
EmptyTable == <<>>
ChromaTable == MkTable(StdLen, 17, 0)

Item(key, val) == [key |-> key, val |-> val]
Quantization(items) == [present |-> TRUE, items |-> items]
NoQuantization == [present |-> FALSE, items |-> <<>>]

LuminanceOnly ==
    {Quantization(<<Item(0, t)>>) :
        t \in StandardTables \cup ShortTables \cup LongTables \cup {EmptyTable}}
FewTables == {MkTable(StdLen, v, 0) : v \in {1, 10, 50, 100, MaxEntry}}
TwoTables ==
    {Quantization(<<Item(0, t), Item(1, ChromaTable)>>) : t \in FewTables}
        \cup {Quantization(<<Item(1, ChromaTable), Item(0, t)>>) : t \in FewTables}
NoLuminance ==
    {Quantization(<<>>),
     Quantization(<<Item(1, ChromaTable)>>),
     Quantization(<<Item(1, ChromaTable), Item(2, ChromaTable)>>)}

Arg(type, open, format, quantization) ==
    [type |-> type, open |-> open, format |-> format, quantization |-> quantization]

OtherTypeArgs == {Arg("other", "ok", "none", NoQuantization)}
FailedOpenArgs ==
    {Arg("str", e, "none", NoQuantization) :
        e \in {"FileNotFoundError", "PermissionError", "UnidentifiedImageError"}}
        \cup {Arg("bytes", "UnidentifiedImageError", "none", NoQuantization)}
NonJpegArgs ==
    {Arg(t, "ok", f, NoQuantization) :
        t \in {"str", "bytes"}, f \in {"PNG", "GIF", "BMP", "WEBP"}}
        \cup {Arg(t, "ok", "MPO", q) : t \in {"str", "bytes"}, q \in TwoTables \cup NoLuminance}
JpegArgs ==
    {Arg("str", "ok", "JPEG", q) : q \in LuminanceOnly \cup TwoTables \cup NoLuminance}
        \cup {Arg("bytes", "ok", "JPEG", q) : q \in TwoTables \cup NoLuminance}

Args == OtherTypeArgs \cup FailedOpenArgs \cup NonJpegArgs \cup JpegArgs

NoResult == Return(0, "not_called")

(***************************************************************************)
(* Specification Spec: one argument, then either a direct call of          *)
(* get_jpeg_quality_from_qtable or a run of main_cli on it.                *)
(***************************************************************************)
Init ==
    /\ arg \in Args
    /\ pc = "ready"
    /\ ret = NoResult
    /\ shown = NothingShown

\* A caller calls get_jpeg_quality_from_qtable(arg).
Estimate ==
    /\ pc = "ready"
    /\ ret' = get_jpeg_quality_from_qtable(arg)
    /\ pc' = "returned"
    /\ UNCHANGED <<arg, shown>>

\* python app.py --file <path>: main_cli(path) runs to its end.
MainCli ==
    /\ pc = "ready"
    /\ arg.type = "str"
    /\ ret' = get_jpeg_quality_from_qtable(arg)
    /\ shown' = main_cli(arg)
    /\ pc' = "cli_done"
    /\ UNCHANGED arg

Next == Estimate \/ MainCli

Spec == Init /\ [][Next]_vars

(***************************************************************************)
(* Specification SpecClassify: a score, then classify_quality of           *)
(* src/app.py (into ret) and of src/jpeg-quality-estimator/app.py (into    *)
(* shown), in either order.                                                *)
(***************************************************************************)
Scores == (0 - ScoreMargin)..(100 + ScoreMargin)

InitClassify ==
    /\ arg \in Scores
    /\ pc = "score"
    /\ ret = "unset"
    /\ shown = "unset"

ClassifyApp ==
    /\ ret = "unset"
    /\ ret' = classify_quality(arg)
    /\ pc' = "classified"
    /\ UNCHANGED <<arg, shown>>

ClassifyEstimatorApp ==
    /\ shown = "unset"
    /\ shown' = classify_quality_estimator(arg)
    /\ pc' = "classified"
    /\ UNCHANGED <<arg, ret>>

NextClassify == ClassifyApp \/ ClassifyEstimatorApp

SpecClassify == InitClassify /\ [][NextClassify]_vars

(***************************************************************************)
(* Vocabulary of the claims, stated on the input and not through the       *)
(* operators above.                                                        *)
(***************************************************************************)
Called == pc \in {"returned", "cli_done"}
Decoded(a) == a.type \in {"str", "bytes"} /\ a.open = "ok"
DecodedJpeg(a) == Decoded(a) /\ a.format = "JPEG" /\ a.quantization.present
LumPositions(a) ==
    {i \in 1..Len(a.quantization.items) : a.quantization.items[i].key = 0}
HasLum(a) == LumPositions(a) # {}
LumOf(a) == a.quantization.items[CHOOSE i \in LumPositions(a) : TRUE].val

RECURSIVE Total(_, _)
Total(t, n) == IF n = 0 THEN 0 ELSE t[n] + Total(t, n - 1)
EntrySum(t) == Total(t, Len(t))

\* A decoded JPEG whose luminance table has the standard 64 entries.
StandardInput(a) == DecodedJpeg(a) /\ HasLum(a) /\ Len(LumOf(a)) = 64
\* A decoded JPEG whose luminance table has another, non-zero entry count.
MismatchInput(a) ==
    DecodedJpeg(a) /\ HasLum(a) /\ Len(LumOf(a)) # 64 /\ Len(LumOf(a)) > 0

\* The five-segment curve at avgQ = s / m, as the fraction CurveNum / CurveDen.
CurveNum(s, m) ==
    IF s <= 10 * m THEN 96 * m - s
    ELSE IF s <= 20 * m THEN 210 * m - 3 * s
    ELSE IF s <= 50 * m THEN 95 * m - s
    ELSE IF s <= 100 * m THEN 375 * m - 3 * s
    ELSE 250 * m - s
CurveDen(s, m) ==
    IF s <= 10 * m THEN m
    ELSE IF s <= 20 * m THEN 2 * m
    ELSE IF s <= 50 * m THEN m
    ELSE IF s <= 100 * m THEN 5 * m
    ELSE 10 * m

\* The linear fallback 110 - mean / 1.5 at mean = s / n, as a fraction.
LinearNum(s, n) == 330 * n - 2 * s
LinearDen(s, n) == 3 * n

Clamp(q) == IF q < 1 THEN 1 ELSE IF q > 100 THEN 100 ELSE q
Abs(x) == IF x < 0 THEN 0 - x ELSE x
\* num / den with the fractional part dropped.
Truncated(num, den) ==
    IF num >= 0 THEN num \div den ELSE 0 - ((0 - num) \div den)
\* q is an integer nearest to num / den (either neighbour at a tie).
Nearest(q, num, den) == 2 * Abs(q * den - num) <= den
RoundedClamped(v, num, den) ==
    \E q \in (0 - 200)..400 : Nearest(q, num, den) /\ v = Clamp(q)

ExpectedCategory(score) ==
    CASE score >= 90 -> "High Quality"
      [] score >= 80 /\ score < 90 -> "Medium Quality"
      [] score >= 70 /\ score < 80 -> "Low Quality"
      [] score < 70 -> "Very Low Quality"

(***************************************************************************)
(* C1                                                                      *)
(***************************************************************************)
\* C1: every call of get_jpeg_quality_from_qtable that returns a value
\* returns an integer q with 1 <= q <= 100, whichever return statement or
\* except clause produced it.
C1_ReturnInRange ==
    (Called /\ ret.tag = "return") => ret.value \in 1..100

\* The standard path returned the clamped value 1 for a raw score below 1.
C1_Witness ==
    /\ pc = "returned"
    /\ StandardInput(arg)
    /\ CurveNum(EntrySum(LumOf(arg)), 64) < CurveDen(EntrySum(LumOf(arg)), 64)
    /\ ret.tag = "return"
    /\ ret.value = 1

(***************************************************************************)
(* C2                                                                      *)
(***************************************************************************)
Undecodable(a) == a.type \in {"str", "bytes"} /\ a.open = "UnidentifiedImageError"

PointwiseLE(a, b) == Len(a) = Len(b) /\ \A i \in 1..Len(a) : a[i] <= b[i]
QualityOfTable(t) ==
    get_jpeg_quality_from_qtable(
        Arg("bytes", "ok", "JPEG", Quantization(<<Item(0, t)>>))).value
UniformTables == {MkTable(64, v, 0) : v \in 0..MaxEntry}

\* C3: for 64-entry luminance tables A and B with A[i] <= B[i] at every
\* position, the quality returned for A is at least the quality returned
\* for B (here B is the table of the call and A any uniform table below it).
C3_Monotone ==
    (pc = "returned" /\ StandardInput(arg)) =>
        \A a \in UniformTables :
            PointwiseLE(a, LumOf(arg)) => QualityOfTable(a) >= ret.value

(***************************************************************************)
(* C4                                                                      *)
(***************************************************************************)
\* C4: a decoded JPEG with no luminance table (an empty table mapping, or a
\* mapping with no entry for index 0) gets the fallback quality 50, and no
\* exception is raised or handled on the way.
C4_MissingTableReturns50 ==
    (Called /\ DecodedJpeg(arg) /\ ~HasLum(arg)) =>
        /\ ret.tag = "return"
        /\ ret.value = 50
        /\ ret.handler = "none"

(***************************************************************************)
(* C5                                                                      *)
(***************************************************************************)
UnreadablePath(a) ==
    a.type = "str" /\ a.open \in {"FileNotFoundError", "PermissionError"}

\* C5: a path that cannot be opened or read makes the estimator raise to
\* its caller, so main_cli's except clauses run and main_cli prints no
\* quality score and no category for that path.
C5_UnreadablePathPropagates ==
    /\ (Called /\ UnreadablePath(arg)) => ret.tag = "raise"
    /\ (pc = "cli_done" /\ UnreadablePath(arg)) =>
            shown.kind \in {"file_not_found", "error"}

(***************************************************************************)
(* C6 (specification SpecClassify)                                         *)
(***************************************************************************)
Categories == {"High Quality", "Medium Quality", "Low Quality", "Very Low Quality"}

\* C6: classify_quality maps a score >= 90 to "High Quality", 80 <= score
\* < 90 to "Medium Quality", 70 <= score < 80 to "Low Quality" and a score
\* < 70 to "Very Low Quality"; every score gets one category, and the copy
\* in src/jpeg-quality-estimator/app.py gives the same category.
C6_Classification ==
    /\ ret # "unset" => (ret \in Categories /\ ret = ExpectedCategory(arg))
    /\ shown # "unset" => (shown \in Categories /\ shown = ExpectedCategory(arg))
    /\ (ret # "unset" /\ shown # "unset") => ret = shown

\* Both copies classified the threshold score 80.
C6_Witness ==
    /\ pc = "classified"
    /\ arg = 80
    /\ ret = "Medium Quality"
    /\ shown = "Medium Quality"

(***************************************************************************)
(* C7                                                                      *)
(***************************************************************************)
\* C7: a decoded non-JPEG input returns 98 when the format is PNG (main_cli
\* then reports "High Quality") and 50 for every other format, by the
\* return statements of lines 41-42: the quantization attribute is not
\* read (reading it where it is absent would end in an except clause).
C7_FormatFallback ==
    /\ (Called /\ Decoded(arg) /\ arg.format # "JPEG") =>
            /\ ret.tag = "return"
            /\ ret.handler = "none"
            /\ ret.branch = "not_jpeg"
            /\ ret.value = IF arg.format = "PNG" THEN 98 ELSE 50
    /\ (pc = "cli_done" /\ Decoded(arg) /\ arg.format = "PNG") =>
            /\ shown.kind = "quality"
            /\ shown.score = 98
            /\ shown.category = "High Quality"

\* main_cli reported a PNG file.
C7_Witness ==
    /\ pc = "cli_done"
    /\ Decoded(arg)
    /\ arg.format = "PNG"
    /\ shown.category = "High Quality"

(***************************************************************************)
(* C8                                                                      *)
(***************************************************************************)
\* C8 as stated: on the standard path the returned quality is the curve's
\* value at avgQ = sum / 64 rounded to the nearest integer, then clamped
\* to [1, 100].
C8_Original ==
    (Called /\ StandardInput(arg)) =>
        /\ ret.tag = "return"
        /\ RoundedClamped(ret.value,
                          CurveNum(EntrySum(LumOf(arg)), 64),
                          CurveDen(EntrySum(LumOf(arg)), 64))

\* C8 as amended: on the standard path the returned quality is the curve's
\* value at avgQ = sum / 64 with its fractional part dropped (truncated,
\* not rounded to nearest) and clamped to [1, 100]: a raw score below 1
\* yields 1, and no table reaches a raw score above 96.
C8_StandardPathTruncates ==
    (Called /\ StandardInput(arg)) =>
        /\ ret.tag = "return"
        /\ ret.handler = "none"
        /\ ret.value <= 96
        /\ ret.value = Clamp(Truncated(CurveNum(EntrySum(LumOf(arg)), 64),
                                       CurveDen(EntrySum(LumOf(arg)), 64)))

\* A standard-path call whose raw score has a fractional part above 1/2:
\* truncation and rounding to nearest differ.
C8_Witness ==
    /\ pc = "returned"
    /\ StandardInput(arg)
    /\ ret.value \in 2..99
    /\ LET num == CurveNum(EntrySum(LumOf(arg)), 64)
           den == CurveDen(EntrySum(LumOf(arg)), 64)
       IN  2 * (num - ret.value * den) > den

(***************************************************************************)
(* C9                                                                      *)
(***************************************************************************)
\* C9 as stated: a luminance table whose entry count differs from 64 (and
\* is not 0, so that the mean exists) never raises and returns
\* clamp(round(110 - mean / 1.5), 1, 100), round being rounding to the
\* nearest integer.
C9_Original ==
    (Called /\ MismatchInput(arg)) =>
        /\ ret.tag = "return"
        /\ ret.handler = "none"
        /\ RoundedClamped(ret.value,
                          LinearNum(EntrySum(LumOf(arg)), Len(LumOf(arg))),
                          LinearDen(EntrySum(LumOf(arg)), Len(LumOf(arg))))

\* C9 as amended: a luminance table with at least one entry and an entry
\* count other than 64 never raises and returns 110 - mean / 1.5 with its
\* fractional part dropped (truncated, not rounded to nearest), clamped to
\* [1, 100].
C9_MismatchTruncates ==
       (Called /\ MismatchInput(arg)) =>
            /\ ret.tag = "return"
            /\ ret.handler = "none"
            /\ ret.value =
                   Clamp(Truncated(LinearNum(EntrySum(LumOf(arg)), Len(LumOf(arg))),
                                   LinearDen(EntrySum(LumOf(arg)), Len(LumOf(arg)))))

\* A size-mismatched call whose raw value has a fractional part above 1/2.
C9_Witness ==
    /\ pc = "returned"
    /\ MismatchInput(arg)
    /\ Len(LumOf(arg)) = ShortLen
    /\ ret.value \in 2..99
    /\ LET num == LinearNum(EntrySum(LumOf(arg)), Len(LumOf(arg)))
           den == LinearDen(EntrySum(LumOf(arg)), Len(LumOf(arg)))
       IN  2 * (num - ret.value * den) > den

(***************************************************************************)
(* C10                                                                     *)
(***************************************************************************)
Breakpoints == {10, 20, 50, 100}
SegmentUpTo(b, avg) ==
    CASE b = 10 -> segment1(avg)
      [] b = 20 -> segment2(avg)
      [] b = 50 -> segment3(avg)
      [] b = 100 -> segment4(avg)
SegmentAbove(b, avg) ==
    CASE b = 10 -> segment2(avg)
      [] b = 20 -> segment3(avg)
      [] b = 50 -> segment4(avg)
      [] b = 100 -> segment5(avg)
RatAbsDiff(x, y) == IF RatLT(x, y) THEN RatSub(y, x) ELSE RatSub(x, y)

\* C10: when avgQ is exactly a breakpoint b of the curve, the formula that
\* applies up to b and the formula that applies just above b differ at b
\* by less than 1, and the returned score is what either of them gives.
C10_BreakpointContinuity ==
    \A b \in Breakpoints :
        (pc = "returned" /\ StandardInput(arg)
            /\ EntrySum(LumOf(arg)) = b * 64) =>
            /\ RatLT(RatAbsDiff(SegmentUpTo(b, RatInt(b)), SegmentAbove(b, RatInt(b))),
                     RatInt(1))
            /\ ret.value = clamp_to_int(SegmentUpTo(b, RatInt(b)))
            /\ ret.value = clamp_to_int(SegmentAbove(b, RatInt(b)))

====
